---- MODULE Spec2Model ----
(***************************************************************************)
(* A model of types/src/auction/bid.rs: the validator stake record `Bid`,  *)
(* its constructors and mutators, the lock lifecycle, the aggregation of   *)
(* delegator stakes and the bytesrepr encoding of the record.              *)
(*                                                                         *)
(* The state is one Bid value together with a record of the last call made *)
(* on it: which method (`call`), its argument (`arg`), what it returned    *)
(* (`ret`) and the Bid as it was before the call (`pre`).  `life` records  *)
(* which constructor made the Bid and how often unlock has returned true   *)
(* since (counted up to two).                                              *)
(***************************************************************************)
EXTENDS Integers, Sequences, FiniteSets, TLC

VARIABLES bid, call, arg, ret, pre, life

vars == <<bid, call, arg, ret, pre, life>>

(***************************************************************************)
(* Bounds of the model.  U512 and u64 are scaled down: U512 values range   *)
(* over 0..MaxU512 and checked arithmetic fails beyond MaxU512; timestamps *)
(* range over 0..MaxTimestamp.                                             *)
(***************************************************************************)
MaxU512 == 2

MaxTimestamp == 1

NumKeys == 2

U512 == 0 .. MaxU512

Timestamps == 0 .. MaxTimestamp

DelegationRates == {0, 1}

\* Stakes of the delegators the external collaborator inserts.
DelegatorStakes == {1, MaxU512}

(***************************************************************************)
(* Option<T> is a sequence of length at most one; Result<T, E> is a pair.  *)
(***************************************************************************)
None == <<>>

Some(v) == <<v>>

is_some(o) == Len(o) = 1

Ok(v) == <<"Ok", v>>

Err(e) == <<"Err", e>>

is_ok(r) == r[1] = "Ok"

is_err(r) == r[1] = "Err"

ok_or(o, e) == IF is_some(o) THEN Ok(o[1]) ELSE Err(e)

ValidatorFundsLocked == "ValidatorFundsLocked"

InvalidAmount == "InvalidAmount"

\* What a call returns is a pair of the type's name and the value, like the
\* Result above: () as Unit, a bool, a usize, Self.
Unit == <<"()">>

Bool(b) == <<"bool", b>>

Usize(n) == <<"usize", n>>

Self(v) == <<"Self", v>>

\* The arguments of a call are a record by parameter name; NoArgs is the
\* empty one.
NoArgs == <<>>

(***************************************************************************)
(* U512 checked arithmetic.                                                *)
(***************************************************************************)
checked_add(a, b) == IF a + b > MaxU512 THEN None ELSE Some(a + b)

checked_sub(a, b) == IF b > a THEN None ELSE Some(a - b)

(***************************************************************************)
(* URef: an address and access rights.                                     *)
(***************************************************************************)
UREF_ADDR_LENGTH == 32

URef_new(address, access_rights) == [addr |-> address, access |-> access_rights]

URefs == { URef_new([i \in 1 .. UREF_ADDR_LENGTH |-> 42], 7),
           URef_new([i \in 1 .. UREF_ADDR_LENGTH |-> 0], 1) }

(***************************************************************************)
(* PublicKey: a variant tag and the key bytes, ordered by tag and then     *)
(* lexicographically by the bytes.                                         *)
(***************************************************************************)
ED25519_TAG == 1

ED25519_LENGTH == 32

PublicKey_ed25519(data) == [tag |-> ED25519_TAG, data |-> data]

RECURSIVE bytes_lt(_, _)
bytes_lt(a, b) ==
    IF b = <<>> THEN FALSE
    ELSE IF a = <<>> THEN TRUE
    ELSE IF Head(a) # Head(b) THEN Head(a) < Head(b)
    ELSE bytes_lt(Tail(a), Tail(b))

PublicKey_lt(a, b) ==
    \/ a.tag < b.tag
    \/ a.tag = b.tag /\ bytes_lt(a.data, b.data)

(***************************************************************************)
(* Delegator: the external entity, of which the Bid reads staked_amount(). *)
(***************************************************************************)
Delegator(stake) == [staked_amount |-> stake]

\* The k-th key of the model: every byte of it is k.
PublicKeyOf(k) == PublicKey_ed25519([i \in 1 .. ED25519_LENGTH |-> k])

PublicKeys == { PublicKeyOf(k) : k \in 1 .. NumKeys }

(***************************************************************************)
(* BTreeMap<PublicKey, Delegator>: a sequence of <<key, value>> entries    *)
(* kept in ascending key order, keys unique.                               *)
(***************************************************************************)
BTreeMap_new == <<>>

\* Variant: a new key is appended, so the entries keep insertion order.
RECURSIVE BTreeMap_insert_unordered(_, _, _)
BTreeMap_insert_unordered(m, k, v) ==
    IF m = <<>> THEN << <<k, v>> >>
    ELSE IF Head(m)[1] = k THEN << <<k, v>> >> \o Tail(m)
    ELSE << Head(m) >> \o BTreeMap_insert_unordered(Tail(m), k, v)

RECURSIVE BTreeMap_insert(_, _, _)
BTreeMap_insert(m, k, v) ==
    IF m = <<>> THEN << <<k, v>> >>
    ELSE IF Head(m)[1] = k THEN << <<k, v>> >> \o Tail(m)
    ELSE IF PublicKey_lt(k, Head(m)[1]) THEN << <<k, v>> >> \o m
    ELSE << Head(m) >> \o BTreeMap_insert(Tail(m), k, v)

RECURSIVE BTreeMap_remove(_, _)
BTreeMap_remove(m, k) ==
    IF m = <<>> THEN <<>>
    ELSE IF Head(m)[1] = k THEN Tail(m)
    ELSE << Head(m) >> \o BTreeMap_remove(Tail(m), k)

BTreeMap_contains_key(m, k) == \E i \in 1 .. Len(m) : m[i][1] = k

(***************************************************************************)
(* The Bid and its constructors.                                           *)
(***************************************************************************)
Bid(bonding_purse, staked_amount, delegation_rate, release_timestamp_millis, delegators, reward) ==
    [ bonding_purse            |-> bonding_purse,
      staked_amount            |-> staked_amount,
      delegation_rate          |-> delegation_rate,
      release_timestamp_millis |-> release_timestamp_millis,
      delegators               |-> delegators,
      reward                   |-> reward ]

\* Variant: the reward starts at the staked amount.
locked_reward_from_stake(bonding_purse, staked_amount, release_timestamp_millis) ==
    Bid(bonding_purse, staked_amount, 0, Some(release_timestamp_millis),
        BTreeMap_new, staked_amount)

locked(bonding_purse, staked_amount, release_timestamp_millis) ==
    Bid(bonding_purse, staked_amount, 0, Some(release_timestamp_millis),
        BTreeMap_new, 0)

unlocked(bonding_purse, staked_amount, delegation_rate) ==
    Bid(bonding_purse, staked_amount, delegation_rate, None, BTreeMap_new, 0)

is_locked(self) == is_some(self.release_timestamp_millis)

(***************************************************************************)
(* The mutators.  Each yields the Bid after the call and the value         *)
(* returned.                                                               *)
(***************************************************************************)
Outcome(self, r) == [self |-> self, ret |-> r]

\* Variant: the amount is checked before the lock.
decrease_stake_amount_first(self, amount) ==
    LET updated_staked_amount == checked_sub(self.staked_amount, amount)
    IN  IF ~is_some(updated_staked_amount)
        THEN Outcome(self, Err(InvalidAmount))
        ELSE IF is_locked(self) THEN Outcome(self, Err(ValidatorFundsLocked))
        ELSE Outcome([self EXCEPT !.staked_amount = updated_staked_amount[1]],
                     Ok(updated_staked_amount[1]))

\* Variant: the lock is not checked.
decrease_stake_no_lock(self, amount) ==
    LET updated_staked_amount == checked_sub(self.staked_amount, amount)
    IN  IF is_some(updated_staked_amount)
        THEN Outcome([self EXCEPT !.staked_amount = updated_staked_amount[1]],
                     Ok(updated_staked_amount[1]))
        ELSE Outcome(self, Err(InvalidAmount))

\* Variant: the new amount is returned but not stored.
decrease_stake_no_store(self, amount) ==
    IF is_locked(self) THEN Outcome(self, Err(ValidatorFundsLocked))
    ELSE LET updated_staked_amount == checked_sub(self.staked_amount, amount)
         IN  IF is_some(updated_staked_amount)
             THEN Outcome(self, Ok(updated_staked_amount[1]))
             ELSE Outcome(self, Err(InvalidAmount))

decrease_stake(self, amount) ==
    IF is_locked(self) THEN Outcome(self, Err(ValidatorFundsLocked))
    ELSE LET updated_staked_amount == checked_sub(self.staked_amount, amount)
         IN  IF is_some(updated_staked_amount)
             THEN Outcome([self EXCEPT !.staked_amount = updated_staked_amount[1]],
                          Ok(updated_staked_amount[1]))
             ELSE Outcome(self, Err(InvalidAmount))

\* Variant: wrapping instead of checked addition.
increase_stake_wrapping(self, amount) ==
    LET updated_staked_amount == (self.staked_amount + amount) % (MaxU512 + 1)
    IN  Outcome([self EXCEPT !.staked_amount = updated_staked_amount],
                Ok(updated_staked_amount))

increase_stake(self, amount) ==
    LET updated_staked_amount == checked_add(self.staked_amount, amount)
    IN  IF is_some(updated_staked_amount)
        THEN Outcome([self EXCEPT !.staked_amount = updated_staked_amount[1]],
                     Ok(updated_staked_amount[1]))
        ELSE Outcome(self, Err(InvalidAmount))

\* Variant: on overflow the reward is saturated before the error is returned.
increase_reward_saturating(self, amount) ==
    LET updated_reward == checked_add(self.reward, amount)
    IN  IF is_some(updated_reward)
        THEN Outcome([self EXCEPT !.reward = updated_reward[1]],
                     Ok(updated_reward[1]))
        ELSE Outcome([self EXCEPT !.reward = MaxU512], Err(InvalidAmount))

\* Variant: unchecked addition.
increase_reward_unchecked(self, amount) ==
    LET updated_reward == self.reward + amount
    IN  Outcome([self EXCEPT !.reward = updated_reward], Ok(updated_reward))

\* Variant: wrapping instead of checked addition.
increase_reward_wrapping(self, amount) ==
    LET updated_reward == (self.reward + amount) % (MaxU512 + 1)
    IN  Outcome([self EXCEPT !.reward = updated_reward], Ok(updated_reward))

increase_reward(self, amount) ==
    LET updated_reward == checked_add(self.reward, amount)
    IN  IF is_some(updated_reward)
        THEN Outcome([self EXCEPT !.reward = updated_reward[1]],
                     Ok(updated_reward[1]))
        ELSE Outcome(self, Err(InvalidAmount))

\* Variant: the stake is zeroed along with the reward.
zero_reward_and_stake(self) ==
    Outcome([self EXCEPT !.reward = 0, !.staked_amount = 0], Unit)

zero_reward(self) == Outcome([self EXCEPT !.reward = 0], Unit)

\* Variant: the rate of a locked Bid is left as it is.
with_delegation_rate_unlocked_only(self, delegation_rate) ==
    IF is_locked(self) THEN Outcome(self, Unit)
    ELSE Outcome([self EXCEPT !.delegation_rate = delegation_rate], Unit)

with_delegation_rate(self, delegation_rate) ==
    Outcome([self EXCEPT !.delegation_rate = delegation_rate], Unit)

\* Variant: the release timestamp is replaced instead of cleared.
unlock_replaces_timestamp(self, era_end_timestamp_millis) ==
    IF ~is_some(self.release_timestamp_millis) THEN Outcome(self, FALSE)
    ELSE LET release_timestamp_millis == self.release_timestamp_millis[1]
         IN  IF era_end_timestamp_millis < release_timestamp_millis
             THEN Outcome(self, FALSE)
             ELSE Outcome([self EXCEPT !.release_timestamp_millis =
                               Some(era_end_timestamp_millis)], TRUE)

\* Variant: the release timestamp itself does not unlock yet.
unlock_strictly_after(self, era_end_timestamp_millis) ==
    IF ~is_some(self.release_timestamp_millis) THEN Outcome(self, FALSE)
    ELSE LET release_timestamp_millis == self.release_timestamp_millis[1]
         IN  IF era_end_timestamp_millis <= release_timestamp_millis
             THEN Outcome(self, FALSE)
             ELSE Outcome([self EXCEPT !.release_timestamp_millis = None], TRUE)

\* Variant: true is returned but the release timestamp is not cleared.
unlock_not_cleared(self, era_end_timestamp_millis) ==
    IF ~is_some(self.release_timestamp_millis) THEN Outcome(self, FALSE)
    ELSE LET release_timestamp_millis == self.release_timestamp_millis[1]
         IN  IF era_end_timestamp_millis < release_timestamp_millis
             THEN Outcome(self, FALSE)
             ELSE Outcome(self, TRUE)

\* Variant: the comparison is the wrong way round.
unlock_reversed_comparison(self, era_end_timestamp_millis) ==
    IF ~is_some(self.release_timestamp_millis) THEN Outcome(self, FALSE)
    ELSE LET release_timestamp_millis == self.release_timestamp_millis[1]
         IN  IF era_end_timestamp_millis > release_timestamp_millis
             THEN Outcome(self, FALSE)
             ELSE Outcome([self EXCEPT !.release_timestamp_millis = None], TRUE)

unlock(self, era_end_timestamp_millis) ==
    IF ~is_some(self.release_timestamp_millis) THEN Outcome(self, FALSE)
    ELSE LET release_timestamp_millis == self.release_timestamp_millis[1]
         IN  IF era_end_timestamp_millis < release_timestamp_millis
             THEN Outcome(self, FALSE)
             ELSE Outcome([self EXCEPT !.release_timestamp_millis = None], TRUE)

\* The fold over the delegators: Some(0), then checked_add of each stake.
RECURSIVE delegators_fold(_, _)
delegators_fold(maybe_a, entries) ==
    IF entries = <<>> THEN maybe_a
    ELSE delegators_fold(
             IF is_some(maybe_a)
             THEN checked_add(maybe_a[1], Head(entries)[2].staked_amount)
             ELSE None,
             Tail(entries))

\* Variant: the validator's own stake is added with wrapping addition.
total_staked_amount_wrapping(self) ==
    LET delegators_sum == delegators_fold(Some(0), self.delegators)
        total == IF is_some(delegators_sum)
                 THEN Some((delegators_sum[1] + self.staked_amount) % (MaxU512 + 1))
                 ELSE None
    IN  Outcome(self, ok_or(total, InvalidAmount))

total_staked_amount(self) ==
    LET delegators_sum == delegators_fold(Some(0), self.delegators)
        total == IF is_some(delegators_sum)
                 THEN checked_add(delegators_sum[1], self.staked_amount)
                 ELSE None
    IN  Outcome(self, ok_or(total, InvalidAmount))

(***************************************************************************)
(* bytesrepr: the encodings of the field types.  Bytes are 0..255.  An     *)
(* encoder yields the bytes; a decoder yields Ok(<<value, remainder>>) or  *)
(* an error.                                                               *)
(***************************************************************************)
EarlyEndOfStream == "EarlyEndOfStream"

Formatting == "Formatting"

OutOfMemory == "OutOfMemory"

U8_SERIALIZED_LENGTH == 1

U32_SERIALIZED_LENGTH == 4

U64_SERIALIZED_LENGTH == 8

\* The n low-order bytes of v, least significant first.
RECURSIVE le_bytes(_, _)
le_bytes(v, n) ==
    IF n = 0 THEN <<>> ELSE << v % 256 >> \o le_bytes(v \div 256, n - 1)

\* The number denoted by little-endian bytes.
RECURSIVE le_value(_)
le_value(bytes) ==
    IF bytes = <<>> THEN 0 ELSE Head(bytes) + 256 * le_value(Tail(bytes))

\* The number of bytes up to the most significant non-zero byte of v.
RECURSIVE significant_bytes(_)
significant_bytes(v) ==
    IF v = 0 THEN 0 ELSE 1 + significant_bytes(v \div 256)

safe_split_at(bytes, n) ==
    IF n > Len(bytes) THEN Err(EarlyEndOfStream)
    ELSE Ok(<<SubSeq(bytes, 1, n), SubSeq(bytes, n + 1, Len(bytes))>>)

u8_to_bytes(v) == << v >>

u8_from_bytes(bytes) ==
    IF bytes = <<>> THEN Err(EarlyEndOfStream)
    ELSE Ok(<<Head(bytes), Tail(bytes)>>)

u32_to_bytes(v) == le_bytes(v, U32_SERIALIZED_LENGTH)

u32_from_bytes(bytes) ==
    LET split == safe_split_at(bytes, U32_SERIALIZED_LENGTH)
    IN  IF is_err(split) THEN split
        ELSE Ok(<<le_value(split[2][1]), split[2][2]>>)

u64_to_bytes(v) == le_bytes(v, U64_SERIALIZED_LENGTH)

u64_serialized_length(v) == U64_SERIALIZED_LENGTH

u64_from_bytes(bytes) ==
    LET split == safe_split_at(bytes, U64_SERIALIZED_LENGTH)
    IN  IF is_err(split) THEN split
        ELSE Ok(<<le_value(split[2][1]), split[2][2]>>)

\* U512: a length byte, then that many little-endian bytes, no high zeros.
U512_BYTES == 64

U512_to_bytes(v) ==
    << significant_bytes(v) >> \o le_bytes(v, significant_bytes(v))

U512_serialized_length(v) == U8_SERIALIZED_LENGTH + significant_bytes(v)

U512_from_bytes(bytes) ==
    LET num_bytes == u8_from_bytes(bytes)
    IN  IF is_err(num_bytes) THEN num_bytes
        ELSE IF num_bytes[2][1] > U512_BYTES THEN Err(Formatting)
        ELSE LET split == safe_split_at(num_bytes[2][2], num_bytes[2][1])
             IN  IF is_err(split) THEN split
                 ELSE Ok(<<le_value(split[2][1]), split[2][2]>>)

\* DelegationRate: a fixed-width integer, encoded as u64.
DelegationRate_to_bytes(v) == u64_to_bytes(v)

DelegationRate_serialized_length(v) == u64_serialized_length(v)

DelegationRate_from_bytes(bytes) == u64_from_bytes(bytes)

\* Option<u64>: a presence tag, then the value if present.
OPTION_NONE_TAG == 0

OPTION_SOME_TAG == 1

Option_u64_to_bytes(o) ==
    IF is_some(o) THEN << OPTION_SOME_TAG >> \o u64_to_bytes(o[1])
    ELSE << OPTION_NONE_TAG >>

Option_u64_serialized_length(o) ==
    U8_SERIALIZED_LENGTH + (IF is_some(o) THEN u64_serialized_length(o[1]) ELSE 0)

Option_u64_from_bytes(bytes) ==
    LET tag == u8_from_bytes(bytes)
    IN  IF is_err(tag) THEN tag
        ELSE IF tag[2][1] = OPTION_NONE_TAG THEN Ok(<<None, tag[2][2]>>)
        ELSE IF tag[2][1] = OPTION_SOME_TAG
        THEN LET t == u64_from_bytes(tag[2][2])
             IN  IF is_err(t) THEN t ELSE Ok(<<Some(t[2][1]), t[2][2]>>)
        ELSE Err(Formatting)

\* URef: the address bytes, then the access rights byte (three flag bits).
ACCESS_RIGHTS_ALL == 7

URef_to_bytes(u) == u.addr \o u8_to_bytes(u.access)

URef_serialized_length(u) == UREF_ADDR_LENGTH + U8_SERIALIZED_LENGTH

URef_from_bytes(bytes) ==
    LET split == safe_split_at(bytes, UREF_ADDR_LENGTH)
    IN  IF is_err(split) THEN split
        ELSE LET rights == u8_from_bytes(split[2][2])
             IN  IF is_err(rights) THEN rights
                 ELSE IF rights[2][1] > ACCESS_RIGHTS_ALL THEN Err(Formatting)
                 ELSE Ok(<<URef_new(split[2][1], rights[2][1]), rights[2][2]>>)

\* PublicKey: the variant tag, then the key bytes.
PublicKey_to_bytes(k) == u8_to_bytes(k.tag) \o k.data

PublicKey_serialized_length(k) == U8_SERIALIZED_LENGTH + Len(k.data)

PublicKey_from_bytes(bytes) ==
    LET tag == u8_from_bytes(bytes)
    IN  IF is_err(tag) THEN tag
        ELSE IF tag[2][1] # ED25519_TAG THEN Err(Formatting)
        ELSE LET split == safe_split_at(tag[2][2], ED25519_LENGTH)
             IN  IF is_err(split) THEN split
                 ELSE Ok(<<PublicKey_ed25519(split[2][1]), split[2][2]>>)

\* Delegator: its stake.
Delegator_to_bytes(d) == U512_to_bytes(d.staked_amount)

Delegator_serialized_length(d) == U512_serialized_length(d.staked_amount)

Delegator_from_bytes(bytes) ==
    LET stake == U512_from_bytes(bytes)
    IN  IF is_err(stake) THEN stake
        ELSE Ok(<<Delegator(stake[2][1]), stake[2][2]>>)

\* BTreeMap: the number of entries as u32, then key and value of each entry
\* in ascending key order.
RECURSIVE BTreeMap_entries_to_bytes(_)
BTreeMap_entries_to_bytes(m) ==
    IF m = <<>> THEN <<>>
    ELSE PublicKey_to_bytes(Head(m)[1]) \o Delegator_to_bytes(Head(m)[2])
         \o BTreeMap_entries_to_bytes(Tail(m))

BTreeMap_to_bytes(m) == u32_to_bytes(Len(m)) \o BTreeMap_entries_to_bytes(m)

RECURSIVE BTreeMap_entries_serialized_length(_)
BTreeMap_entries_serialized_length(m) ==
    IF m = <<>> THEN 0
    ELSE PublicKey_serialized_length(Head(m)[1])
         + Delegator_serialized_length(Head(m)[2])
         + BTreeMap_entries_serialized_length(Tail(m))

BTreeMap_serialized_length(m) ==
    U32_SERIALIZED_LENGTH + BTreeMap_entries_serialized_length(m)

RECURSIVE BTreeMap_entries_from_bytes(_, _, _)
BTreeMap_entries_from_bytes(num_keys, result, bytes) ==
    IF num_keys = 0 THEN Ok(<<result, bytes>>)
    ELSE LET k == PublicKey_from_bytes(bytes)
         IN  IF is_err(k) THEN k
             ELSE LET v == Delegator_from_bytes(k[2][2])
                  IN  IF is_err(v) THEN v
                      ELSE BTreeMap_entries_from_bytes(
                               num_keys - 1,
                               BTreeMap_insert(result, k[2][1], v[2][1]),
                               v[2][2])

BTreeMap_from_bytes(bytes) ==
    LET num_keys == u32_from_bytes(bytes)
    IN  IF is_err(num_keys) THEN num_keys
        ELSE BTreeMap_entries_from_bytes(num_keys[2][1], BTreeMap_new,
                                         num_keys[2][2])

(***************************************************************************)
(* impl ToBytes for Bid, impl FromBytes for Bid.                           *)
(***************************************************************************)
\* Variant: the lock state is counted as a bare timestamp, without its tag.
serialized_length_no_tag(self) ==
    URef_serialized_length(self.bonding_purse)
    + U512_serialized_length(self.staked_amount)
    + DelegationRate_serialized_length(self.delegation_rate)
    + (IF is_some(self.release_timestamp_millis) THEN U64_SERIALIZED_LENGTH ELSE 0)
    + BTreeMap_serialized_length(self.delegators)
    + U512_serialized_length(self.reward)

serialized_length(self) ==
    URef_serialized_length(self.bonding_purse)
    + U512_serialized_length(self.staked_amount)
    + DelegationRate_serialized_length(self.delegation_rate)
    + Option_u64_serialized_length(self.release_timestamp_millis)
    + BTreeMap_serialized_length(self.delegators)
    + U512_serialized_length(self.reward)

\* An empty buffer with the capacity the value needs; a length above
\* u32::MAX = 65536 * 65536 - 1 is refused.
allocate_buffer(self) ==
    IF serialized_length(self) \div 65536 >= 65536 THEN Err(OutOfMemory)
    ELSE Ok(<<>>)

\* Variant: the reward is written before the delegators.
to_bytes_reward_first(self) ==
    LET result == allocate_buffer(self)
    IN  IF is_err(result) THEN result
        ELSE Ok(result[2]
                \o URef_to_bytes(self.bonding_purse)
                \o U512_to_bytes(self.staked_amount)
                \o DelegationRate_to_bytes(self.delegation_rate)
                \o Option_u64_to_bytes(self.release_timestamp_millis)
                \o U512_to_bytes(self.reward)
                \o BTreeMap_to_bytes(self.delegators))

to_bytes(self) ==
    LET result == allocate_buffer(self)
    IN  IF is_err(result) THEN result
        ELSE Ok(result[2]
                \o URef_to_bytes(self.bonding_purse)
                \o U512_to_bytes(self.staked_amount)
                \o DelegationRate_to_bytes(self.delegation_rate)
                \o Option_u64_to_bytes(self.release_timestamp_millis)
                \o BTreeMap_to_bytes(self.delegators)
                \o U512_to_bytes(self.reward))

\* Variant: staked_amount and reward are taken from each other's position.
from_bytes_swapped(bytes) ==
    LET bonding_purse == URef_from_bytes(bytes)
    IN  IF is_err(bonding_purse) THEN bonding_purse ELSE
    LET staked_amount == U512_from_bytes(bonding_purse[2][2])
    IN  IF is_err(staked_amount) THEN staked_amount ELSE
    LET delegation_rate == DelegationRate_from_bytes(staked_amount[2][2])
    IN  IF is_err(delegation_rate) THEN delegation_rate ELSE
    LET release_timestamp_millis == Option_u64_from_bytes(delegation_rate[2][2])
    IN  IF is_err(release_timestamp_millis) THEN release_timestamp_millis ELSE
    LET delegators == BTreeMap_from_bytes(release_timestamp_millis[2][2])
    IN  IF is_err(delegators) THEN delegators ELSE
    LET reward == U512_from_bytes(delegators[2][2])
    IN  IF is_err(reward) THEN reward ELSE
    Ok(<< Bid(bonding_purse[2][1], reward[2][1], delegation_rate[2][1],
              release_timestamp_millis[2][1], delegators[2][1],
              staked_amount[2][1]),
          reward[2][2] >>)

\* Variant: the remainder returned is the one left before the reward was read.
from_bytes_stale_remainder(bytes) ==
    LET bonding_purse == URef_from_bytes(bytes)
    IN  IF is_err(bonding_purse) THEN bonding_purse ELSE
    LET staked_amount == U512_from_bytes(bonding_purse[2][2])
    IN  IF is_err(staked_amount) THEN staked_amount ELSE
    LET delegation_rate == DelegationRate_from_bytes(staked_amount[2][2])
    IN  IF is_err(delegation_rate) THEN delegation_rate ELSE
    LET release_timestamp_millis == Option_u64_from_bytes(delegation_rate[2][2])
    IN  IF is_err(release_timestamp_millis) THEN release_timestamp_millis ELSE
    LET delegators == BTreeMap_from_bytes(release_timestamp_millis[2][2])
    IN  IF is_err(delegators) THEN delegators ELSE
    LET reward == U512_from_bytes(delegators[2][2])
    IN  IF is_err(reward) THEN reward ELSE
    Ok(<< Bid(bonding_purse[2][1], staked_amount[2][1], delegation_rate[2][1],
              release_timestamp_millis[2][1], delegators[2][1], reward[2][1]),
          delegators[2][2] >>)

from_bytes(bytes) ==
    LET bonding_purse == URef_from_bytes(bytes)
    IN  IF is_err(bonding_purse) THEN bonding_purse ELSE
    LET staked_amount == U512_from_bytes(bonding_purse[2][2])
    IN  IF is_err(staked_amount) THEN staked_amount ELSE
    LET delegation_rate == DelegationRate_from_bytes(staked_amount[2][2])
    IN  IF is_err(delegation_rate) THEN delegation_rate ELSE
    LET release_timestamp_millis == Option_u64_from_bytes(delegation_rate[2][2])
    IN  IF is_err(release_timestamp_millis) THEN release_timestamp_millis ELSE
    LET delegators == BTreeMap_from_bytes(release_timestamp_millis[2][2])
    IN  IF is_err(delegators) THEN delegators ELSE
    LET reward == U512_from_bytes(delegators[2][2])
    IN  IF is_err(reward) THEN reward ELSE
    Ok(<< Bid(bonding_purse[2][1], staked_amount[2][1], delegation_rate[2][1],
              release_timestamp_millis[2][1], delegators[2][1], reward[2][1]),
          reward[2][2] >>)

(***************************************************************************)
(* The state machine: construction, then any sequence of calls.            *)
(***************************************************************************)
Init ==
    \/ \E p \in URefs, a \in U512, t \in Timestamps :
          /\ bid = locked(p, a, t)
          /\ call = "locked"
          /\ arg = [bonding_purse |-> p, staked_amount |-> a,
                    release_timestamp_millis |-> t]
          /\ ret = Self(bid)
          /\ pre = bid
          /\ life = [constructor |-> "locked", unlocked |-> 0]
    \/ \E p \in URefs, a \in U512, r \in DelegationRates :
          /\ bid = unlocked(p, a, r)
          /\ call = "unlocked"
          /\ arg = [bonding_purse |-> p, staked_amount |-> a,
                    delegation_rate |-> r]
          /\ ret = Self(bid)
          /\ pre = bid
          /\ life = [constructor |-> "unlocked", unlocked |-> 0]

Apply(name, a, out) ==
    /\ bid' = out.self
    /\ call' = name
    /\ arg' = a
    /\ ret' = out.ret
    /\ pre' = bid
    /\ life' = IF name = "unlock" /\ out.ret = Bool(TRUE) /\ life.unlocked < 2
               THEN [life EXCEPT !.unlocked = life.unlocked + 1]
               ELSE life

DecreaseStake == \E amount \in U512 :
    Apply("decrease_stake", [amount |-> amount], decrease_stake(bid, amount))

IncreaseStake == \E amount \in U512 :
    Apply("increase_stake", [amount |-> amount], increase_stake(bid, amount))

IncreaseReward == \E amount \in U512 :
    Apply("increase_reward", [amount |-> amount], increase_reward(bid, amount))

ZeroReward == Apply("zero_reward", NoArgs, zero_reward(bid))

WithDelegationRate == \E rate \in DelegationRates :
    Apply("with_delegation_rate", [delegation_rate |-> rate],
          with_delegation_rate(bid, rate))

Unlock == \E now \in Timestamps :
    Apply("unlock", [era_end_timestamp_millis |-> now],
          Outcome(unlock(bid, now).self, Bool(unlock(bid, now).ret)))

TotalStakedAmount ==
    Apply("total_staked_amount", NoArgs, total_staked_amount(bid))

\* The external collaborator, through delegators_mut().
DelegatorsInsert == \E k \in PublicKeys, s \in DelegatorStakes :
    Apply("delegators_mut.insert", [key |-> k, value |-> Delegator(s)],
          Outcome([bid EXCEPT !.delegators =
                       BTreeMap_insert(bid.delegators, k, Delegator(s))], Unit))

DelegatorsRemove == \E k \in PublicKeys :
    /\ BTreeMap_contains_key(bid.delegators, k)
    /\ Apply("delegators_mut.remove", [key |-> k],
             Outcome([bid EXCEPT !.delegators =
                          BTreeMap_remove(bid.delegators, k)], Unit))

Next ==
    \/ DecreaseStake
    \/ IncreaseStake
    \/ IncreaseReward
    \/ ZeroReward
    \/ WithDelegationRate
    \/ Unlock
    \/ TotalStakedAmount
    \/ DelegatorsInsert
    \/ DelegatorsRemove

Spec == Init /\ [][Next]_vars

(***************************************************************************)
(* The lifecycle under the assumption that unlock keeps being called with  *)
(* a timestamp that has reached the release timestamp: the effect of such  *)
(* a call on a locked Bid is not put off for ever.                         *)
(***************************************************************************)
UnlockDue == \E now \in Timestamps :
    /\ is_locked(bid)
    /\ now >= bid.release_timestamp_millis[1]
    /\ bid' = unlock(bid, now).self

LiveSpec == Init /\ [][Next]_vars /\ WF_bid(UnlockDue)

(***************************************************************************)
(* The encoding, applied to every Bid value within the bounds: the Bid is  *)
(* written as a struct literal, as serialization_roundtrip does, and then  *)
(* encoded, measured and decoded.                                          *)
(***************************************************************************)
LockStates == { None } \cup { Some(t) : t \in Timestamps }

\* The map that results from inserting the keys of g, highest first.
RECURSIVE BTreeMap_of(_, _)
BTreeMap_of(g, k) ==
    IF k > NumKeys THEN BTreeMap_new
    ELSE IF k \in DOMAIN g
         THEN BTreeMap_insert(BTreeMap_of(g, k + 1), PublicKeyOf(k),
                              Delegator(g[k]))
         ELSE BTreeMap_of(g, k + 1)

DelegatorMaps ==
    UNION { { BTreeMap_of(g, 1) : g \in [K -> DelegatorStakes] } :
            K \in SUBSET (1 .. NumKeys) }

InitCodec ==
    \E p \in URefs, a \in U512, r \in DelegationRates, l \in LockStates,
       d \in DelegatorMaps, w \in U512 :
        /\ bid = Bid(p, a, r, l, d, w)
        /\ call = "Bid"
        /\ arg = NoArgs
        /\ ret = Self(bid)
        /\ pre = bid
        /\ life = [constructor |-> "Bid", unlocked |-> 0]

ToBytes == Apply("to_bytes", NoArgs, Outcome(bid, to_bytes(bid)))

SerializedLength ==
    Apply("serialized_length", NoArgs,
          Outcome(bid, Usize(serialized_length(bid))))

\* Bytes handed to the decoder: the encoding of the Bid followed by a tail,
\* or the encoding cut short by one byte.
Tails == { <<>>, <<0>>, <<1, 255>> }

DecodeInputs(self) ==
    LET encoded == to_bytes(self)[2]
    IN  { encoded \o t : t \in Tails }
        \cup { SubSeq(encoded, 1, Len(encoded) - 1) }

FromBytes == \E bytes \in DecodeInputs(bid) :
    Apply("from_bytes", [bytes |-> bytes], Outcome(bid, from_bytes(bytes)))

NextCodec ==
    \/ ToBytes
    \/ SerializedLength
    \/ FromBytes

SpecCodec == InitCodec /\ [][NextCodec]_vars

(***************************************************************************)
(* Properties.                                                             *)
(***************************************************************************)

\* C1: whenever the Bid is locked, decrease_stake(amount) fails with
\* ValidatorFundsLocked for every amount (also amounts above staked_amount
\* and amount 0) and leaves staked_amount unchanged.
C1_LockGating ==
    (call = "decrease_stake" /\ is_locked(pre)) =>
        /\ ret = Err(ValidatorFundsLocked)
        /\ bid.staked_amount = pre.staked_amount

C1_Witness ==
    /\ call = "decrease_stake"
    /\ is_locked(pre)
    /\ arg.amount > pre.staked_amount
    /\ ret = Err(ValidatorFundsLocked)

\* C2: every step taken from a state in which the Bid is locked leaves
\* staked_amount greater than or equal to its value before the step.
C2_LockedStakeNeverDecreases ==
    [][is_locked(bid) => bid'.staked_amount >= bid.staked_amount]_vars

C2_Witness ==
    /\ call = "increase_stake"
    /\ is_locked(pre)
    /\ is_locked(bid)
    /\ bid.staked_amount > pre.staked_amount

\* C3: once the lock state is Unlocked no step makes is_locked() true
\* again, and the only change of the lock state is Locked(r) -> Unlocked.
C3_UnlockedIsTerminal ==
    [][ /\ ~is_locked(bid) => ~is_locked(bid')
        /\ bid'.release_timestamp_millis # bid.release_timestamp_millis
               => (is_locked(bid) /\ ~is_locked(bid')) ]_vars

C3_Witness ==
    /\ call = "unlock"
    /\ ~is_locked(pre)
    /\ ~is_locked(bid)
    /\ ret = Bool(FALSE)

\* C4: unlock(now) returns true exactly when the Bid is Locked(release) and
\* now >= release, and then the state is Unlocked; otherwise it returns
\* false and the lock state with its release timestamp is unchanged.  It
\* returns a boolean, never an error.
C4_UnlockSemantics ==
    call = "unlock" =>
        /\ ret \in { Bool(TRUE), Bool(FALSE) }
        /\ ret = Bool(/\ is_locked(pre)
                     /\ arg.era_end_timestamp_millis
                            >= pre.release_timestamp_millis[1])
        /\ ret = Bool(TRUE) => bid.release_timestamp_millis = None
        /\ ret = Bool(FALSE) => bid.release_timestamp_millis = pre.release_timestamp_millis

C4_Witness ==
    /\ call = "unlock"
    /\ is_locked(pre)
    /\ arg.era_end_timestamp_millis = pre.release_timestamp_millis[1]
    /\ ret = Bool(TRUE)
    /\ ~is_locked(bid)

\* C5: on an unlocked Bid, decrease_stake(amount) fails with InvalidAmount
\* and leaves the state unchanged when amount > staked_amount; otherwise it
\* sets staked_amount to staked_amount - amount and returns Ok of it.
C5_DecreaseSemantics ==
    (call = "decrease_stake" /\ ~is_locked(pre)) =>
        IF arg.amount > pre.staked_amount
        THEN ret = Err(InvalidAmount) /\ bid = pre
        ELSE /\ ret = Ok(pre.staked_amount - arg.amount)
             /\ bid.staked_amount = pre.staked_amount - arg.amount

C5_Witness ==
    /\ call = "decrease_stake"
    /\ ~is_locked(pre)
    /\ arg.amount = pre.staked_amount
    /\ arg.amount > 0
    /\ ret = Ok(0)
    /\ bid.staked_amount = 0

\* C6: increase_stake(amount) sets staked_amount to staked_amount + amount
\* and returns Ok of it exactly when the sum is at most MAX, locked or not;
\* otherwise it fails with InvalidAmount and does not wrap.
C6_IncreaseStakeChecked ==
    call = "increase_stake" =>
        IF pre.staked_amount + arg.amount <= MaxU512
        THEN /\ ret = Ok(pre.staked_amount + arg.amount)
             /\ bid.staked_amount = pre.staked_amount + arg.amount
        ELSE /\ ret = Err(InvalidAmount)
             /\ bid.staked_amount = pre.staked_amount

C6_Witness ==
    /\ call = "increase_stake"
    /\ is_locked(pre)
    /\ pre.staked_amount = MaxU512
    /\ arg.amount = 1
    /\ ret = Err(InvalidAmount)

\* C7: whenever decrease_stake, increase_stake, increase_reward or
\* total_staked_amount returns an error, every field of the Bid is as it
\* was before the call.
C7_NoPartialMutation ==
    ( /\ call \in {"decrease_stake", "increase_stake", "increase_reward",
                   "total_staked_amount"}
      /\ is_err(ret) ) =>
        /\ bid.bonding_purse = pre.bonding_purse
        /\ bid.staked_amount = pre.staked_amount
        /\ bid.delegation_rate = pre.delegation_rate
        /\ bid.release_timestamp_millis = pre.release_timestamp_millis
        /\ bid.delegators = pre.delegators
        /\ bid.reward = pre.reward

C7_Witness ==
    /\ call = "increase_reward"
    /\ ret = Err(InvalidAmount)
    /\ pre.reward > 0
    /\ pre.reward + arg.amount > MaxU512

\* The exact sum of the delegators' stakes.
RECURSIVE DelegatorsStakeSum(_)
DelegatorsStakeSum(entries) ==
    IF entries = <<>> THEN 0
    ELSE Head(entries)[2].staked_amount + DelegatorsStakeSum(Tail(entries))

\* The aggregation folded the other way round: own stake first, then the
\* delegators.
TotalOwnStakeFirst(self) ==
    ok_or(delegators_fold(Some(self.staked_amount), self.delegators),
          InvalidAmount)

\* C8: total_staked_amount() returns Ok(S), S being staked_amount plus the
\* delegators' stakes, exactly when S <= MAX and InvalidAmount exactly when
\* S > MAX; folding own stake first gives the same outcome; the Bid is not
\* modified.
C8_TotalStakedAmount ==
    call = "total_staked_amount" =>
        LET S == pre.staked_amount + DelegatorsStakeSum(pre.delegators)
        IN  /\ S <= MaxU512 => ret = Ok(S)
            /\ S > MaxU512 => ret = Err(InvalidAmount)
            /\ ret = TotalOwnStakeFirst(pre)
            /\ bid = pre

C8_Witness ==
    /\ call = "total_staked_amount"
    /\ Len(pre.delegators) = 2
    /\ DelegatorsStakeSum(pre.delegators) <= MaxU512
    /\ pre.staked_amount + DelegatorsStakeSum(pre.delegators) > MaxU512
    /\ ret = Err(InvalidAmount)

\* C9: for every Bid x, from_bytes(to_bytes(x)) returns Ok((x, empty
\* remainder)).
C9_RoundTrip ==
    (call = "from_bytes" /\ is_ok(to_bytes(pre)) /\ arg.bytes = to_bytes(pre)[2]) =>
        /\ is_ok(ret)
        /\ ret[2] = <<pre, <<>>>>

C9_Witness ==
    /\ call = "from_bytes"
    /\ arg.bytes = to_bytes(pre)[2]
    /\ is_locked(pre)
    /\ Len(pre.delegators) = 2
    /\ pre.staked_amount # pre.reward
    /\ is_ok(ret)

\* C10: serialized_length(x) is the number of bytes to_bytes(x) produces,
\* in both lock states and for every number of delegators.
C10_LengthAccuracy ==
    call = "serialized_length" =>
        /\ is_ok(to_bytes(pre))
        /\ ret = Usize(Len(to_bytes(pre)[2]))

C10_Witness ==
    /\ call = "serialized_length"
    /\ is_locked(pre)
    /\ Len(pre.delegators) = 2
    /\ ret = Usize(Len(to_bytes(pre)[2]))

\* C11: for every Bid x and every tail t, from_bytes(to_bytes(x) ++ t)
\* returns Ok((x, t)): decoding consumes exactly the encoded prefix and
\* hands back the rest unchanged.
C11_SelfDelimiting ==
    call = "from_bytes" =>
        \A t \in Tails :
            arg.bytes = to_bytes(pre)[2] \o t =>
                /\ is_ok(ret)
                /\ ret[2] = <<pre, t>>

C11_Witness ==
    /\ call = "from_bytes"
    /\ arg.bytes = to_bytes(pre)[2] \o <<1, 255>>
    /\ is_locked(pre)
    /\ Len(pre.delegators) = 2
    /\ is_ok(ret)
    /\ ret[2][2] = <<1, 255>>

\* The entries of a map, each key followed by its value, one after another.
RECURSIVE EntriesLayout(_, _)
EntriesLayout(m, i) ==
    IF i > Len(m) THEN <<>>
    ELSE PublicKey_to_bytes(m[i][1]) \o Delegator_to_bytes(m[i][2])
         \o EntriesLayout(m, i + 1)

\* The layout of a Bid: the encodings of bonding_purse, staked_amount,
\* delegation_rate, the lock state (presence flag, then the timestamp only
\* if locked), the delegators (count, then the entries) and reward.
BidLayout(x) ==
    URef_to_bytes(x.bonding_purse)
    \o U512_to_bytes(x.staked_amount)
    \o DelegationRate_to_bytes(x.delegation_rate)
    \o (IF is_locked(x)
        THEN <<1>> \o u64_to_bytes(x.release_timestamp_millis[1])
        ELSE <<0>>)
    \o u32_to_bytes(Len(x.delegators)) \o EntriesLayout(x.delegators, 1)
    \o U512_to_bytes(x.reward)

KeysAscending(m) ==
    \A i \in 1 .. Len(m), j \in 1 .. Len(m) :
        i < j => PublicKey_lt(m[i][1], m[j][1])

\* C12: the encoding of a Bid is the concatenation of the encodings of its
\* fields in the order bonding_purse, staked_amount, delegation_rate, lock
\* state, delegators (in ascending key order), reward; from_bytes reads the
\* same layout: what it decodes, laid out again, is the prefix it consumed.
C12_FieldOrder ==
    /\ call = "to_bytes" =>
          /\ ret = Ok(BidLayout(pre))
          /\ KeysAscending(pre.delegators)
    /\ (call = "from_bytes" /\ is_ok(ret)) =>
          BidLayout(ret[2][1]) \o ret[2][2] = arg.bytes

C12_Witness ==
    /\ call = "to_bytes"
    /\ is_locked(pre)
    /\ Len(pre.delegators) = 2
    /\ pre.reward # 0
    /\ ret = Ok(BidLayout(pre))

\* Every map that inserting the given key/value pairs into an empty map, in
\* any order, can give.
RECURSIVE InsertedInAnyOrder(_)
InsertedInAnyOrder(pairs) ==
    IF pairs = {} THEN { BTreeMap_new }
    ELSE UNION { { BTreeMap_insert(m, p[1], p[2]) :
                       m \in InsertedInAnyOrder(pairs \ {p}) } : p \in pairs }

\* C13: Bids with the same logical state encode to the same bytes whatever
\* the history: after any sequence of inserts and removes, a Bid whose
\* delegators were inserted afresh in any order encodes to the same bytes.
C13_CanonicalEncoding ==
    call \in {"delegators_mut.insert", "delegators_mut.remove"} =>
        \A m \in InsertedInAnyOrder({ bid.delegators[i] :
                                          i \in 1 .. Len(bid.delegators) }) :
            to_bytes([bid EXCEPT !.delegators = m]) = to_bytes(bid)

C13_Witness ==
    /\ call = "delegators_mut.insert"
    /\ Len(pre.delegators) = 1
    /\ Len(bid.delegators) = 2
    /\ PublicKey_lt(arg.key, pre.delegators[1][1])
    /\ bid.delegators[1][1] = arg.key

\* C14: staked_amount and reward are within [0, MAX] in every state
\* reachable from either constructor; an addition that would pass MAX and a
\* subtraction that would pass 0 fail instead of wrapping.
C14_AmountsInRange ==
    /\ bid.staked_amount \in U512
    /\ bid.reward \in U512
    /\ (call = "increase_stake" /\ pre.staked_amount + arg.amount > MaxU512)
           => ret = Err(InvalidAmount)
    /\ (call = "increase_reward" /\ pre.reward + arg.amount > MaxU512)
           => ret = Err(InvalidAmount)
    /\ (call = "decrease_stake" /\ arg.amount > pre.staked_amount) => is_err(ret)

C14_Witness ==
    /\ call = "increase_reward"
    /\ pre.reward = MaxU512
    /\ arg.amount = MaxU512
    /\ bid.reward = MaxU512
    /\ bid.staked_amount = MaxU512

\* C15: increase_reward(amount) sets reward to reward + amount and returns
\* Ok of it exactly when the sum is at most MAX, otherwise fails with
\* InvalidAmount and leaves reward unchanged; locked or not; staked_amount
\* is never changed by it.
C15_IncreaseRewardChecked ==
    call = "increase_reward" =>
        /\ IF pre.reward + arg.amount <= MaxU512
           THEN /\ ret = Ok(pre.reward + arg.amount)
                /\ bid.reward = pre.reward + arg.amount
           ELSE /\ ret = Err(InvalidAmount)
                /\ bid.reward = pre.reward
        /\ bid.staked_amount = pre.staked_amount

C15_Witness ==
    /\ call = "increase_reward"
    /\ is_locked(pre)
    /\ arg.amount > 0
    /\ ret = Ok(pre.reward + arg.amount)
    /\ bid.reward # bid.staked_amount

\* C16: zero_reward() cannot fail: from every state it sets reward to 0 and
\* leaves the other five fields unchanged.
C16_ZeroReward ==
    call = "zero_reward" =>
        /\ ret = Unit
        /\ bid.reward = 0
        /\ bid.bonding_purse = pre.bonding_purse
        /\ bid.staked_amount = pre.staked_amount
        /\ bid.delegation_rate = pre.delegation_rate
        /\ bid.release_timestamp_millis = pre.release_timestamp_millis
        /\ bid.delegators = pre.delegators

C16_Witness ==
    /\ call = "zero_reward"
    /\ is_locked(pre)
    /\ pre.reward = MaxU512
    /\ pre.staked_amount > 0
    /\ pre.delegators # <<>>
    /\ bid.reward = 0

\* C17: locked(purse, amount, release) yields delegation_rate 0, lock state
\* Locked(release), no delegators, reward 0 and staked_amount = amount;
\* unlocked(purse, amount, rate) yields lock state Unlocked, delegation_rate
\* = rate, no delegators, reward 0 and staked_amount = amount.
C17_InitialStates ==
    /\ call = "locked" =>
          /\ bid.bonding_purse = arg.bonding_purse
          /\ bid.staked_amount = arg.staked_amount
          /\ bid.delegation_rate = 0
          /\ bid.release_timestamp_millis = Some(arg.release_timestamp_millis)
          /\ is_locked(bid)
          /\ bid.delegators = <<>>
          /\ bid.reward = 0
    /\ call = "unlocked" =>
          /\ bid.bonding_purse = arg.bonding_purse
          /\ bid.staked_amount = arg.staked_amount
          /\ bid.delegation_rate = arg.delegation_rate
          /\ bid.release_timestamp_millis = None
          /\ ~is_locked(bid)
          /\ bid.delegators = <<>>
          /\ bid.reward = 0

C17_Witness ==
    /\ call = "locked"
    /\ arg.staked_amount = MaxU512
    /\ arg.release_timestamp_millis = MaxTimestamp
    /\ is_locked(bid)

\* C18: over the lifetime of a Bid, whatever the calls and the timestamps
\* given to unlock, unlock returns true at most once, and never for a Bid
\* made by unlocked().
C18_UnlockAtMostOnce ==
    /\ life.unlocked <= 1
    /\ life.constructor = "unlocked" => life.unlocked = 0

C18_Witness ==
    /\ life.constructor = "locked"
    /\ life.unlocked = 1
    /\ call = "unlock"
    /\ arg.era_end_timestamp_millis = MaxTimestamp
    /\ ret = Bool(FALSE)

\* C19: a Bid made Locked(release), with unlock called fairly with
\* timestamps that reach release, is eventually Unlocked, and an unlocked
\* Bid grants every decrease_stake(amount) with amount <= staked_amount;
\* while no unlock call has a timestamp of release or more, the Bid stays
\* locked with the same release timestamp.
C19_LockLiveness ==
    /\ is_locked(bid) ~> ~is_locked(bid)
    /\ []( (call = "decrease_stake" /\ ~is_locked(pre)
                /\ arg.amount <= pre.staked_amount)
              => ret = Ok(pre.staked_amount - arg.amount) )
    /\ [][ ( /\ is_locked(bid)
             /\ ~(call' = "unlock" /\ arg'.era_end_timestamp_millis
                                      >= bid.release_timestamp_millis[1]) )
            => bid'.release_timestamp_millis = bid.release_timestamp_millis ]_bid

C19_Witness ==
    /\ life.constructor = "locked"
    /\ life.unlocked = 1
    /\ call = "decrease_stake"
    /\ arg.amount > 0
    /\ ret = Ok(pre.staked_amount - arg.amount)

\* C20: unlock changes nothing but the lock state; increase_stake and
\* decrease_stake change nothing but staked_amount; with_delegation_rate
\* sets delegation_rate, locked or not, and changes nothing else; no call
\* changes bonding_purse.
C20_MutatorFrames ==
    /\ call = "unlock" =>
          bid = [pre EXCEPT !.release_timestamp_millis =
                                bid.release_timestamp_millis]
    /\ call \in {"increase_stake", "decrease_stake"} =>
          bid = [pre EXCEPT !.staked_amount = bid.staked_amount]
    /\ call = "with_delegation_rate" =>
          bid = [pre EXCEPT !.delegation_rate = arg.delegation_rate]
    /\ bid.bonding_purse = pre.bonding_purse

C20_Witness ==
    /\ call = "with_delegation_rate"
    /\ is_locked(pre)
    /\ arg.delegation_rate # pre.delegation_rate
    /\ bid.delegation_rate = arg.delegation_rate
    /\ pre.delegators # <<>>

====
